---------------------------- MODULE Spec2Model ----------------------------
(***************************************************************************)
(* A model of the exam sensor pipeline of src/Data_Exploration.py (and of  *)
(* its copy src/midterm2_csv_generate.py, which differs only in the        *)
(* duration constant, the folder name and the exam label).                 *)
(*                                                                         *)
(* Floats are modelled as exact rationals [k |-> "num", n, d] in lowest    *)
(* terms with d > 0, plus the two IEEE specials the code can produce,      *)
(* "nan" and "inf".  A cell read from a non-numeric line has k = "str".    *)
(* pandas behaviour is the one of pandas >= 2.1: read_csv raises           *)
(* EmptyDataError on a file without data lines, and GroupBy.mean raises    *)
(* TypeError on a non-empty group of an object column.                     *)
(***************************************************************************)
EXTENDS Integers, Sequences, FiniteSets, TLC

VARIABLES
    student_dirs,   \* sorted(glob(BASE_DIR/S*)): the student ids, as digit strings
    exam_duration,  \* FINAL_EXAM_DURATION (MIDTERM2_DURATION in the copy); small in Init
    pool,           \* the sensor files a directory may hold (input domain of the run)
    pc,             \* "student" | "sensor" | "merge" | "done"
    si,             \* index into student_dirs of the student being processed
    ki,             \* index into SENSORS of the sensor being processed
    files,          \* what the current student's exam folder was found to hold
    status,         \* per sensor of the current student: "missing" | "error" | "ok"
    sensor_dfs,     \* the dict sensor_dfs of the current student
    final_exam_data_list,  \* the list of the merged frames of the students
    console,        \* the student-level and run-level messages printed so far
    df_final_exam,  \* the frame handed to to_csv, or NoFrame
    writes,         \* number of to_csv calls
    agg_df,         \* argument of a direct call of aggregate_to_minutes
    agg_duration,   \* its exam_duration argument
    agg_ret         \* its result

pipeVars == <<student_dirs, exam_duration, pool, pc, si, ki, files, status,
              sensor_dfs, final_exam_data_list, console, df_final_exam, writes>>
aggVars == <<agg_df, agg_duration, agg_ret>>
vars == <<student_dirs, exam_duration, pool, pc, si, ki, files, status,
          sensor_dfs, final_exam_data_list, console, df_final_exam, writes,
          agg_df, agg_duration, agg_ret>>

-----------------------------------------------------------------------------
(* Bounds and program constants *)

MaxDuration == 2
MaxSamples == 3
NumStudents == 2
FINAL_EXAM_DURATION == 180
SecondsPerMinute == 60

-----------------------------------------------------------------------------
(* Float arithmetic *)

Abs(x) == IF x < 0 THEN -x ELSE x

RECURSIVE GCD(_, _)
GCD(a, b) == IF b = 0 THEN a ELSE GCD(b, a % b)

Num(n, d) ==
    LET s == IF d < 0 THEN -1 ELSE 1
        g == GCD(Abs(n), Abs(d))
    IN  [k |-> "num", n |-> (s * n) \div g, d |-> (s * d) \div g]

Whole(i) == [k |-> "num", n |-> i, d |-> 1]
NaN == [k |-> "nan", n |-> 0, d |-> 1]
Inf == [k |-> "inf", n |-> 0, d |-> 1]
Text == [k |-> "str", n |-> 0, d |-> 1]
EndOfFile == [k |-> "eof", n |-> 0, d |-> 1]

\* a / b of two floats, b a parsed header value (numpy: x/0 is nan for x = 0, inf otherwise)
FloatDiv(a, b) ==
    IF b.n = 0 THEN (IF a.n = 0 THEN NaN ELSE Inf)
    ELSE Num(a.n * b.d, a.d * b.n)

FloatAdd(a, b) ==
    IF a.k = "nan" \/ b.k = "nan" THEN NaN
    ELSE IF a.k = "inf" \/ b.k = "inf" THEN Inf
    ELSE Num(a.n * b.d + b.n * a.d, a.d * b.d)

\* a - b; inf - inf is nan
FloatSub(a, b) ==
    IF a.k = "nan" \/ b.k = "nan" THEN NaN
    ELSE IF b.k = "inf" THEN NaN
    ELSE IF a.k = "inf" THEN Inf
    ELSE Num(a.n * b.d - b.n * a.d, a.d * b.d)

\* a // c for a positive integer c; inf // c is nan in numpy
FloatFloorDiv(a, c) ==
    IF a.k # "num" THEN NaN ELSE Whole(a.n \div (a.d * c))

\* a < b; every comparison with nan is False
FloatLess(a, b) ==
    IF a.k = "nan" \/ b.k = "nan" THEN FALSE
    ELSE IF a.k = "inf" THEN FALSE
    ELSE IF b.k = "inf" THEN TRUE
    ELSE a.n * b.d < b.n * a.d

-----------------------------------------------------------------------------
(* Series and frames.  A frame is [columns, rows]: the column names in     *)
(* order and the rows in order, a row being a function from the column     *)
(* names to cells.                                                         *)

NoFrame == [columns |-> <<>>, rows |-> <<>>, none |-> TRUE]

Frame(cols, rows) == [columns |-> cols, rows |-> rows]

Range(s) == {s[i] : i \in 1..Len(s)}

Column(df, c) == [i \in 1..Len(df.rows) |-> df.rows[i][c]]

\* Series.min(): skips nan; nan for an empty or all-nan series
SeriesMin(s) ==
    LET vals == {s[i] : i \in {j \in 1..Len(s) : s[j].k # "nan"}}
    IN  IF vals = {} THEN NaN
        ELSE CHOOSE x \in vals : \A y \in vals : ~FloatLess(y, x)

\* s[lo] + ... + s[hi], summed by halves
RECURSIVE SeqSum(_, _, _)
SeqSum(s, lo, hi) ==
    IF lo > hi THEN Whole(0)
    ELSE IF lo = hi THEN s[lo]
    ELSE LET mid == (lo + hi) \div 2
         IN  FloatAdd(SeqSum(s, lo, mid), SeqSum(s, mid + 1, hi))

\* a wrong Mean: the group's sum
MeanAsSum(s) ==
    LET vals == SelectSeq(s, LAMBDA c : c.k # "nan")
    IN  IF Len(vals) = 0 THEN NaN ELSE SeqSum(vals, 1, Len(vals))

\* mean of a group column: skips nan; nan when nothing is left
Mean(s) ==
    LET vals == SelectSeq(s, LAMBDA c : c.k # "nan")
    IN  IF Len(vals) = 0 THEN NaN
        ELSE FloatDiv(SeqSum(vals, 1, Len(vals)), Whole(Len(vals)))

\* the column is of dtype object: read_csv met a line that is no number
IsObject(df, c) == \E i \in 1..Len(df.rows) : df.rows[i][c].k = "str"

\* the cells of S in ascending order: those below the median, the median, those above
RECURSIVE SortCells(_)
SortCells(S) ==
    IF S = {} THEN <<>>
    ELSE LET half == Cardinality(S) \div 2
             p == CHOOSE x \in S : Cardinality({y \in S : FloatLess(y, x)}) = half
         IN  SortCells({y \in S : FloatLess(y, p)}) \o <<p>>
             \o SortCells({y \in S : FloatLess(p, y)})

\* ss[lo] \o ... \o ss[hi], joined by halves
RECURSIVE FlattenRange(_, _, _)
FlattenRange(ss, lo, hi) ==
    IF lo > hi THEN <<>>
    ELSE IF lo = hi THEN ss[lo]
    ELSE LET mid == (lo + hi) \div 2
         IN  FlattenRange(ss, lo, mid) \o FlattenRange(ss, mid + 1, hi)

Flatten(ss) == FlattenRange(ss, 1, Len(ss))

NaNRow(cols) == [c \in Range(cols) |-> NaN]

Rename(cols, taken, suffix) ==
    [i \in 1..Len(cols) |-> IF cols[i] \in Range(taken) THEN cols[i] \o suffix ELSE cols[i]]

\* the row of the merge result made of a left row and a right row (either may be
\* the all-nan row), with the key taken from whichever side has it
JoinRow(key, on, l, lcols, r, rcols, rnames) ==
    [c \in {on} \cup Range(lcols) \cup Range(rnames) |->
        IF c = on THEN key
        ELSE IF c \in Range(lcols) THEN l[c]
        ELSE r[rcols[CHOOSE j \in 1..Len(rcols) : rnames[j] = c]]]

\* DataFrame.merge(right, on=on, how=how, suffixes=("", suffix)), how in {"left","outer"}
Merge(left, right, on, how, suffix) ==
    LET lcols == SelectSeq(left.columns, LAMBDA c : c # on)
        rcols == SelectSeq(right.columns, LAMBDA c : c # on)
        rnames == Rename(rcols, lcols, suffix)
        lrows(key) == SelectSeq(left.rows, LAMBDA r : r[on] = key)
        rrows(key) == SelectSeq(right.rows, LAMBDA r : r[on] = key)
        orNaN(rs, cols) == IF Len(rs) = 0 THEN <<NaNRow(cols)>> ELSE rs
        pair(key, ls, rs) ==
            Flatten([i \in 1..Len(ls) |->
                       [j \in 1..Len(rs) |->
                          JoinRow(key, on, ls[i], lcols, rs[j], rcols, rnames)]])
        leftJoin ==
            Flatten([i \in 1..Len(left.rows) |->
                       pair(left.rows[i][on], <<left.rows[i]>>,
                            orNaN(rrows(left.rows[i][on]), rcols))])
        keys == SortCells({r[on] : r \in Range(left.rows) \cup Range(right.rows)})
        outerJoin ==
            Flatten([i \in 1..Len(keys) |->
                       pair(keys[i], orNaN(lrows(keys[i]), lcols),
                            orNaN(rrows(keys[i]), rcols))])
    IN  Frame(left.columns \o rnames, IF how = "left" THEN leftJoin ELSE outerJoin)

-----------------------------------------------------------------------------
(* Results of a call that may raise *)

Raise(e) == [ok |-> FALSE, err |-> e, df |-> NoFrame]
Return(df) == [ok |-> TRUE, err |-> "", df |-> df]

-----------------------------------------------------------------------------
(* read_sensor_data.  A file is [line1, line2, rows]: its two header lines *)
(* and its data lines, each a number, Text (not a number) or EndOfFile.    *)

read_sensor_data(file, column_name) ==
    IF file.line1.k # "num" THEN Raise("ValueError")
    ELSE IF file.line2.k # "num" THEN Raise("ValueError")
    ELSE IF Len(file.rows) = 0 THEN Raise("EmptyDataError")
    ELSE
        LET session_start == file.line1
            sample_rate == file.line2
            timestamps == [i \in 1..Len(file.rows) |-> FloatDiv(Whole(i - 1), sample_rate)]
        IN  Return(Frame(<<column_name, "Timestamp">>,
                [i \in 1..Len(file.rows) |->
                    (column_name :> file.rows[i])
                    @@ ("Timestamp" :> FloatAdd(session_start, timestamps[i]))]))

-----------------------------------------------------------------------------
(* aggregate_to_minutes *)

\* a wrong WithMinute: minutes of the epoch, shared by all sensors, and not minutes
\* since the sensor's own first sample
WithMinuteAbsolute(df) ==
    Frame(df.columns \o <<"Minute">>,
          [i \in 1..Len(df.rows) |->
              df.rows[i] @@ ("Minute" :>
                  FloatFloorDiv(df.rows[i]["Timestamp"], SecondsPerMinute))])

\* line 42: df["Minute"] = (df["Timestamp"] - df["Timestamp"].min()) // 60
WithMinute(df) ==
    LET t0 == SeriesMin(Column(df, "Timestamp"))
    IN  Frame(df.columns \o <<"Minute">>,
              [i \in 1..Len(df.rows) |->
                  df.rows[i] @@ ("Minute" :>
                      FloatFloorDiv(FloatSub(df.rows[i]["Timestamp"], t0), SecondsPerMinute))])

\* line 43: df = df[df["Minute"] < exam_duration]
WithinExam(df, duration) ==
    Frame(df.columns, SelectSeq(df.rows, LAMBDA r : FloatLess(r["Minute"], Whole(duration))))

\* line 44: df.groupby("Minute").mean().reset_index()
GroupMean(df) ==
    LET keys == SortCells({r["Minute"] : r \in Range(df.rows)})
        others == SelectSeq(df.columns, LAMBDA c : c # "Minute")
        group(key) == SelectSeq(df.rows, LAMBDA r : r["Minute"] = key)
    IN  Frame(<<"Minute">> \o others,
              [i \in 1..Len(keys) |->
                  [c \in Range(df.columns) |->
                      IF c = "Minute" THEN keys[i]
                      ELSE Mean([j \in 1..Len(group(keys[i])) |-> group(keys[i])[j][c]])]])

\* a wrong AllMinutes: minutes 1..duration
AllMinutesFromOne(duration) ==
    Frame(<<"Minute">>, [m \in 1..duration |-> [c \in {"Minute"} |-> Whole(m)]])

\* line 46: pd.DataFrame({"Minute": np.arange(exam_duration)})
AllMinutes(duration) ==
    Frame(<<"Minute">>, [m \in 1..duration |-> [c \in {"Minute"} |-> Whole(m - 1)]])

\* a wrong Reindex: the grouped frame as it is, minutes without samples left out
ReindexOmitted(df_agg, duration) == df_agg

\* line 47: all_minutes.merge(df_agg, on="Minute", how="left")
Reindex(df_agg, duration) == Merge(AllMinutes(duration), df_agg, "Minute", "left", "_y")

aggregate_to_minutes(df, duration) ==
    LET kept == WithinExam(WithMinute(df), duration)
    IN  IF Len(kept.rows) > 0 /\ \E c \in Range(df.columns) : IsObject(df, c)
        THEN Raise("TypeError")
        ELSE Return(Reindex(GroupMean(kept), duration))

-----------------------------------------------------------------------------
(* Direct calls of aggregate_to_minutes on arbitrary sample sequences *)

TimeSet == {Whole(1000), Num(2119, 2), Whole(1060), Whole(1130), Whole(1190)}
ValueSet == {Whole(0), Whole(3)}

RECURSIVE SeqsUpTo(_, _)
SeqsUpTo(S, n) ==
    IF n = 0 THEN {<<>>}
    ELSE LET shorter == SeqsUpTo(S, n - 1)
         IN  shorter \cup {Append(s, x) : s \in {t \in shorter : Len(t) = n - 1}, x \in S}

Sample(t, v) == ("EDA" :> v) @@ ("Timestamp" :> t)

SampleFrames ==
    {Frame(<<"EDA", "Timestamp">>, rows) :
        rows \in SeqsUpTo({Sample(t, v) : t \in TimeSet, v \in ValueSet}, MaxSamples)}

NotCalled == [ok |-> FALSE, err |-> "not called", df |-> NoFrame]

IdleAgg ==
    /\ agg_df = NoFrame
    /\ agg_duration = 0
    /\ agg_ret = NotCalled

IdlePipe ==
    /\ student_dirs = <<>>
    /\ exam_duration = 0
    /\ pool = {}
    /\ pc = "idle"
    /\ si = 0
    /\ ki = 0
    /\ files = <<>>
    /\ status = <<>>
    /\ sensor_dfs = <<>>
    /\ final_exam_data_list = <<>>
    /\ console = <<>>
    /\ df_final_exam = NoFrame
    /\ writes = 0

InitAgg ==
    /\ IdlePipe
    /\ agg_df \in SampleFrames
    /\ agg_duration \in 1..MaxDuration
    /\ agg_ret = NotCalled

CallAggregate ==
    /\ agg_ret = NotCalled
    /\ agg_ret' = aggregate_to_minutes(agg_df, agg_duration)
    /\ UNCHANGED <<agg_df, agg_duration>>
    /\ UNCHANGED pipeVars

NextAgg == CallAggregate

SpecAgg == InitAgg /\ [][NextAgg]_vars

-----------------------------------------------------------------------------
(* The driver: lines 50-108 *)

SENSORS == <<"EDA", "HR", "TEMP", "BVP">>
EXAM_LABEL == "Final"
desired_cols == <<"Student", "Exam", "Minute", "EDA", "BVP", "TEMP", "HR">>

File(l1, l2, rows) == [exists |-> TRUE, line1 |-> l1, line2 |-> l2, rows |-> rows]
Absent == [exists |-> FALSE, line1 |-> EndOfFile, line2 |-> EndOfFile, rows |-> <<>>]

\* student ids: the digits after the "S" of the directory name
StudentNames == {<<1>>, <<2>>, <<1, 0>>}

RECURSIVE LexLess(_, _)
LexLess(a, b) ==
    IF Len(b) = 0 THEN FALSE
    ELSE IF Len(a) = 0 THEN TRUE
    ELSE IF a[1] # b[1] THEN a[1] < b[1]
    ELSE LexLess(Tail(a), Tail(b))

\* a wrong sorted: by student number (S2 before S10)
RECURSIVE sortedByNumber(_)
sortedByNumber(S) ==
    IF S = {} THEN <<>>
    ELSE LET less(a, b) == Len(a) < Len(b) \/ (Len(a) = Len(b) /\ LexLess(a, b))
             m == CHOOSE x \in S : \A y \in S : ~less(y, x)
         IN  <<m>> \o sortedByNumber(S \ {m})

\* line 52: sorted(glob.glob(...)) of the directory names found
RECURSIVE sorted(_)
sorted(S) ==
    IF S = {} THEN <<>>
    ELSE LET m == CHOOSE x \in S : \A y \in S : ~LexLess(y, x)
         IN  <<m>> \o sorted(S \ {m})

Label(v) == [k |-> "id", v |-> v]

\* df[c] = v for a scalar v
WithColumn(df, c, v) ==
    Frame(IF c \in Range(df.columns) THEN df.columns ELSE df.columns \o <<c>>,
          [i \in 1..Len(df.rows) |->
              [x \in DOMAIN df.rows[i] \cup {c} |-> IF x = c THEN v ELSE df.rows[i][x]]])

\* a wrong MergeFrom: the sensor frames stacked below each other (a concat for a merge)
RECURSIVE MergeFromStack(_, _, _)
MergeFromStack(df_student, dfs, i) ==
    IF i > Len(SENSORS) THEN df_student
    ELSE IF SENSORS[i] \in DOMAIN dfs /\ SENSORS[i] # "EDA"
         THEN MergeFromStack(
                  Frame(df_student.columns \o <<SENSORS[i]>>,
                        [j \in 1..Len(df_student.rows) |->
                            df_student.rows[j] @@ (SENSORS[i] :> NaN)]
                        \o [j \in 1..Len(dfs[SENSORS[i]].rows) |->
                            dfs[SENSORS[i]].rows[j]
                            @@ [c \in Range(df_student.columns) |-> NaN]]),
                  dfs, i + 1)
         ELSE MergeFromStack(df_student, dfs, i + 1)

\* lines 86-89: the EDA frame, then every other sensor of the dict merged onto it
RECURSIVE MergeFrom(_, _, _)
MergeFrom(df_student, dfs, i) ==
    IF i > Len(SENSORS) THEN df_student
    ELSE IF SENSORS[i] \in DOMAIN dfs /\ SENSORS[i] # "EDA"
         THEN MergeFrom(Merge(df_student, dfs[SENSORS[i]], "Minute", "outer",
                              "_" \o SENSORS[i]), dfs, i + 1)
         ELSE MergeFrom(df_student, dfs, i + 1)

\* lines 86-92
MergeStudentFrame(dfs, student_id) ==
    WithColumn(WithColumn(MergeFrom(dfs["EDA"], dfs, 1), "Student", Label(student_id)),
               "Exam", Label(EXAM_LABEL))

\* line 85
HasAnchor(dfs) == "EDA" \in DOMAIN dfs

RECURSIVE UnionColumns(_, _)
UnionColumns(frames, i) ==
    IF i > Len(frames) THEN <<>>
    ELSE LET rest == UnionColumns(frames, i + 1)
         IN  frames[i].columns \o SelectSeq(rest, LAMBDA c : c \notin Range(frames[i].columns))

\* line 99: pd.concat(frames, ignore_index=True)
Concat(frames) ==
    LET cols == UnionColumns(frames, 1)
    IN  Frame(cols,
              Flatten([i \in 1..Len(frames) |->
                  [j \in 1..Len(frames[i].rows) |->
                      [c \in Range(cols) |->
                          IF c \in DOMAIN frames[i].rows[j]
                          THEN frames[i].rows[j][c] ELSE NaN]]]))

\* lines 101-103
SelectColumns(df) ==
    LET existing_cols == SelectSeq(desired_cols, LAMBDA c : c \in Range(df.columns))
    IN  Frame(existing_cols,
              [i \in 1..Len(df.rows) |-> [c \in Range(existing_cols) |-> df.rows[i][c]]])

\* a wrong ShouldWrite: the file is written whatever the list holds
ShouldWriteAlways(frames) == TRUE

\* line 98
ShouldWrite(frames) == Len(frames) > 0

StartOfRun(dirs, duration, p) ==
    /\ IdleAgg
    /\ student_dirs = dirs
    /\ exam_duration = duration
    /\ pool = p
    /\ pc = "student"
    /\ si = 1
    /\ ki = 1
    /\ files = [student |-> <<>>, holds |-> <<>>]
    /\ status = <<>>
    /\ sensor_dfs = <<>>
    /\ final_exam_data_list = <<>>
    /\ console = <<>>
    /\ df_final_exam = NoFrame
    /\ writes = 0

\* lines 65-70: the exam folder of the student is missing
SkipStudent ==
    /\ pc = "student"
    /\ si <= Len(student_dirs)
    /\ console' = Append(console, [msg |-> "folder not found", student |-> student_dirs[si]])
    /\ si' = si + 1
    /\ UNCHANGED <<student_dirs, exam_duration, pool, pc, ki, files, status,
                   sensor_dfs, final_exam_data_list, df_final_exam, writes>>
    /\ UNCHANGED aggVars

\* lines 65-72: the exam folder is there
EnterStudent ==
    /\ pc = "student"
    /\ si <= Len(student_dirs)
    /\ sensor_dfs' = <<>>
    /\ files' = [student |-> student_dirs[si], holds |-> <<>>]
    /\ status' = <<>>
    /\ ki' = 1
    /\ pc' = "sensor"
    /\ UNCHANGED <<student_dirs, exam_duration, pool, si, final_exam_data_list, console,
                   df_final_exam, writes>>
    /\ UNCHANGED aggVars

\* a wrong ProcessSensor: the try/except around the whole sensor loop, so that a
\* failing sensor ends the loop of the student
ProcessSensorAbortsStudent ==
    /\ pc = "sensor"
    /\ \E f \in pool \cup {Absent} :
        LET sensor_name == SENSORS[ki]
            rd == read_sensor_data(f, sensor_name)
            ag == IF rd.ok THEN aggregate_to_minutes(rd.df, exam_duration) ELSE rd
        IN  /\ files' = [files EXCEPT !.holds = (sensor_name :> f) @@ @]
            /\ IF ~f.exists
               THEN /\ status' = (sensor_name :> "missing") @@ status
                    /\ UNCHANGED sensor_dfs
                    /\ IF ki < Len(SENSORS)
                       THEN ki' = ki + 1 /\ pc' = "sensor"
                       ELSE ki' = ki /\ pc' = "merge"
               ELSE IF ~ag.ok
               THEN /\ status' = (sensor_name :> "error") @@ status
                    /\ UNCHANGED sensor_dfs
                    /\ ki' = ki /\ pc' = "merge"
               ELSE /\ status' = (sensor_name :> "ok") @@ status
                    /\ sensor_dfs' = (sensor_name :> ag.df) @@ sensor_dfs
                    /\ IF ki < Len(SENSORS)
                       THEN ki' = ki + 1 /\ pc' = "sensor"
                       ELSE ki' = ki /\ pc' = "merge"
    /\ UNCHANGED <<student_dirs, exam_duration, pool, si, final_exam_data_list, console,
                   df_final_exam, writes>>
    /\ UNCHANGED aggVars

\* lines 73-83: one iteration of the sensor loop
ProcessSensor ==
    /\ pc = "sensor"
    /\ \E f \in pool \cup {Absent} :
        LET sensor_name == SENSORS[ki]
            rd == read_sensor_data(f, sensor_name)
            ag == IF rd.ok THEN aggregate_to_minutes(rd.df, exam_duration) ELSE rd
        IN  /\ files' = [files EXCEPT !.holds = (sensor_name :> f) @@ @]
            /\ IF ~f.exists
               THEN /\ status' = (sensor_name :> "missing") @@ status
                    /\ UNCHANGED sensor_dfs
               ELSE IF ~ag.ok
               THEN /\ status' = (sensor_name :> "error") @@ status
                    /\ UNCHANGED sensor_dfs
               ELSE /\ status' = (sensor_name :> "ok") @@ status
                    /\ sensor_dfs' = (sensor_name :> ag.df) @@ sensor_dfs
    /\ IF ki < Len(SENSORS)
       THEN ki' = ki + 1 /\ pc' = "sensor"
       ELSE ki' = ki /\ pc' = "merge"
    /\ UNCHANGED <<student_dirs, exam_duration, pool, si, final_exam_data_list, console,
                   df_final_exam, writes>>
    /\ UNCHANGED aggVars

\* a wrong MergeStudent: without EDA, the first sensor that was produced is the anchor
MergeStudentAnyAnchor ==
    /\ pc = "merge"
    /\ IF DOMAIN sensor_dfs # {}
       THEN LET anchor == IF HasAnchor(sensor_dfs) THEN "EDA"
                          ELSE SENSORS[CHOOSE i \in 1..Len(SENSORS) :
                                   /\ SENSORS[i] \in DOMAIN sensor_dfs
                                   /\ \A j \in 1..(i - 1) : SENSORS[j] \notin DOMAIN sensor_dfs]
            IN  /\ final_exam_data_list' = Append(final_exam_data_list,
                        WithColumn(WithColumn(sensor_dfs[anchor], "Student",
                                              Label(student_dirs[si])),
                                   "Exam", Label(EXAM_LABEL)))
                /\ UNCHANGED console
       ELSE /\ console' = Append(console, [msg |-> "no EDA", student |-> student_dirs[si]])
            /\ UNCHANGED final_exam_data_list
    /\ si' = si + 1
    /\ pc' = "student"
    /\ UNCHANGED <<student_dirs, exam_duration, pool, ki, files, status, sensor_dfs,
                   df_final_exam, writes>>
    /\ UNCHANGED aggVars

\* lines 84-95
MergeStudent ==
    /\ pc = "merge"
    /\ IF HasAnchor(sensor_dfs)
       THEN /\ final_exam_data_list' = Append(final_exam_data_list,
                                   MergeStudentFrame(sensor_dfs, student_dirs[si]))
            /\ UNCHANGED console
       ELSE /\ console' = Append(console, [msg |-> "no EDA", student |-> student_dirs[si]])
            /\ UNCHANGED final_exam_data_list
    /\ si' = si + 1
    /\ pc' = "student"
    /\ UNCHANGED <<student_dirs, exam_duration, pool, ki, files, status, sensor_dfs,
                   df_final_exam, writes>>
    /\ UNCHANGED aggVars

\* lines 97-108
ConcatAndWrite ==
    /\ pc = "student"
    /\ si > Len(student_dirs)
    /\ IF ShouldWrite(final_exam_data_list)
       THEN /\ df_final_exam' = SelectColumns(Concat(final_exam_data_list))
            /\ writes' = writes + 1
            /\ console' = Append(console, [msg |-> "saved", student |-> <<>>])
       ELSE /\ console' = Append(console, [msg |-> "nothing merged", student |-> <<>>])
            /\ UNCHANGED <<df_final_exam, writes>>
    /\ pc' = "done"
    /\ UNCHANGED <<student_dirs, exam_duration, pool, si, ki, files, status,
                   sensor_dfs, final_exam_data_list>>
    /\ UNCHANGED aggVars

Next ==
    \/ SkipStudent
    \/ EnterStudent
    \/ ProcessSensor
    \/ MergeStudent
    \/ ConcatAndWrite

-----------------------------------------------------------------------------
(* Input files *)

Rows == <<Whole(1), Whole(2), Whole(4)>>

Ok1000 == File(Whole(1000), Num(1, 50), Rows)
Ok1030 == File(Whole(1030), Num(1, 50), Rows)
Slow == File(Whole(1000), Num(1, 100), Rows)
Backwards == File(Whole(1000), Num(-1, 50), Rows)
ZeroRate == File(Whole(1000), Whole(0), Rows)
BadLine1 == File(Text, Num(1, 50), Rows)
BadLine2 == File(Whole(1000), Text, Rows)
EmptyFile == File(EndOfFile, EndOfFile, <<>>)
NoData == File(Whole(1000), Num(1, 50), <<>>)
BadData == File(Whole(1000), Num(1, 50), <<Whole(1), Text, Whole(4)>>)

BatchFiles == {Ok1000, BadLine2, BadData}
StudentFiles == {Ok1000, Ok1030, Slow, Backwards, ZeroRate, BadLine1, BadLine2,
                 EmptyFile, NoData, BadData}

\* start 1000.0, 1 Hz, 185 samples equal to 1
ScenarioFile == File(Whole(1000), Whole(1), [i \in 1..185 |-> Whole(1)])
ScenarioFiles == {ScenarioFile, BadLine2}

\* a run over up to NumStudents student directories
Init ==
    \E S \in SUBSET StudentNames, d \in 1..MaxDuration :
        /\ Cardinality(S) <= NumStudents
        /\ StartOfRun(sorted(S), d, BatchFiles)

Spec == Init /\ [][Next]_vars

\* a run over one student directory, which may hold any of the files
InitStudent ==
    \E d \in 1..MaxDuration : StartOfRun(<<<<1>>>>, d, StudentFiles)

SpecStudent == InitStudent /\ [][Next]_vars

\* the scenario: one student directory, the final exam's duration
InitScenario == StartOfRun(<<<<1>>>>, FINAL_EXAM_DURATION, ScenarioFiles)

SpecScenario == InitScenario /\ [][Next]_vars

-----------------------------------------------------------------------------
(* Properties of aggregate_to_minutes, checked under SpecAgg *)

AggCalled == agg_ret # NotCalled

\* the first timestamp no other timestamp is below
FirstTime(df) ==
    CHOOSE t \in {df.rows[i]["Timestamp"] : i \in 1..Len(df.rows)} :
        \A i \in 1..Len(df.rows) : ~FloatLess(df.rows[i]["Timestamp"], t)

\* the samples of df whose bucket index floor((timestamp - min_timestamp) / 60) is m
InBucket(df, m) ==
    {i \in 1..Len(df.rows) :
        LET dt == FloatSub(df.rows[i]["Timestamp"], FirstTime(df))
        IN  /\ ~FloatLess(dt, Whole(SecondsPerMinute * m))
            /\ FloatLess(dt, Whole(SecondsPerMinute * (m + 1)))}

RECURSIVE SumOver(_, _)
SumOver(cells, I) ==
    IF I = {} THEN Whole(0)
    ELSE LET i == CHOOSE x \in I : TRUE
         IN  FloatAdd(cells[i], SumOver(cells, I \ {i}))

\* v is the arithmetic mean of the cells with index in I (nan when I is empty)
IsMeanOf(v, cells, I) ==
    IF I = {} THEN v = NaN
    ELSE /\ v.k = "num"
         /\ LET sum == SumOver(cells, I)
            IN  v.n * sum.d * Cardinality(I) = sum.n * v.d

RowsOfMinute(df, m) == {i \in 1..Len(df.rows) : df.rows[i]["Minute"] = Whole(m)}

\* C2: every row of the result is a minute m in 0..duration-1 and holds the
\* arithmetic mean of exactly the samples whose bucket index
\* floor((timestamp - min_timestamp) / 60) is m; a sample whose bucket index is
\* >= duration is in no row; a minute without samples holds nan, never 0.
C2_BucketMeans ==
    AggCalled =>
        /\ agg_ret.ok
        /\ \A m \in 0..(agg_duration - 1) : RowsOfMinute(agg_ret.df, m) # {}
        /\ \A i \in 1..Len(agg_ret.df.rows) :
              \E m \in 0..(agg_duration - 1) :
                  /\ agg_ret.df.rows[i]["Minute"] = Whole(m)
                  /\ IsMeanOf(agg_ret.df.rows[i]["EDA"], Column(agg_df, "EDA"),
                              InBucket(agg_df, m))
                  /\ InBucket(agg_df, m) = {} => agg_ret.df.rows[i]["EDA"] # Whole(0)

\* a call where one minute averages two different values, one minute is empty
\* and one sample lies beyond the duration
C2_Witness ==
    /\ AggCalled
    /\ agg_duration = 2
    /\ \E i, j \in InBucket(agg_df, 0) : agg_df.rows[i]["EDA"] # agg_df.rows[j]["EDA"]
    /\ InBucket(agg_df, 1) = {}
    /\ InBucket(agg_df, 3) # {}

\* C3: the result has exactly duration rows whose Minute values are
\* 0, 1, ..., duration-1 in this order, whatever the number of samples; on an
\* empty input the call does not fail and every row holds nan.
C3_ExactlyDurationRows ==
    AggCalled =>
        /\ agg_ret.ok
        /\ Len(agg_ret.df.rows) = agg_duration
        /\ \A i \in 1..Len(agg_ret.df.rows) : agg_ret.df.rows[i]["Minute"] = Whole(i - 1)
        /\ Len(agg_df.rows) = 0 =>
              \A i \in 1..Len(agg_ret.df.rows) :
                  /\ agg_ret.df.rows[i]["EDA"] = NaN
                  /\ agg_ret.df.rows[i]["Timestamp"] = NaN

\* a call on the empty input, and one on an input of MaxSamples samples
C3_Witness ==
    /\ AggCalled
    /\ Len(agg_df.rows) = 0
    /\ agg_duration = 2
    /\ Len(agg_ret.df.rows) = 2

-----------------------------------------------------------------------------
(* Properties of the run, checked under Spec, SpecStudent and SpecScenario *)

SensorSet == Range(SENSORS)

\* the student whose folder files and status describe has been through the merge step
StudentDone == pc \in {"student", "done"} /\ files.student # <<>>

Produced(s) == s \in DOMAIN status /\ status[s] = "ok"
Failed(s) == s \in DOMAIN status /\ status[s] = "error"

\* the merged frames of student id in the list
FramesOf(id) ==
    SelectSeq(final_exam_data_list,
              LAMBDA e : \E i \in 1..Len(e.rows) : e.rows[i]["Student"] = Label(id))

\* the rows of student id in the written frame
OutputRowsOf(id) == {i \in 1..Len(df_final_exam.rows) : df_final_exam.rows[i]["Student"] = Label(id)}

\* frame e has exactly exam_duration rows, one for each minute and no minute twice
OneRowPerMinute(e) ==
    /\ Len(e.rows) = exam_duration
    /\ \A m \in 0..(exam_duration - 1) : Cardinality(RowsOfMinute(e, m)) = 1

\* the students for which a skip message was printed
Skipped(id) ==
    \E i \in 1..Len(console) :
        console[i].student = id /\ console[i].msg \in {"folder not found", "no EDA"}

\* C1: every merged frame has exactly exam_duration rows, one per minute
\* 0..exam_duration-1 and no minute twice, and a student whose EDA series was
\* produced has such a frame, whichever of HR, TEMP and BVP were produced.
C1_MergedFrameHasDurationRows ==
    /\ \A i \in 1..Len(final_exam_data_list) : OneRowPerMinute(final_exam_data_list[i])
    /\ (StudentDone /\ Produced("EDA")) =>
          /\ Len(FramesOf(files.student)) = 1
          /\ \A s \in SensorSet :
                Produced(s) <=> s \in Range(FramesOf(files.student)[1].columns)

\* a merged student with EDA and HR produced, TEMP missing and BVP failed
C1_Witness ==
    /\ StudentDone
    /\ exam_duration = 2
    /\ Produced("EDA") /\ Produced("HR")
    /\ status["TEMP"] = "missing"
    /\ Failed("BVP")
    /\ Len(FramesOf(files.student)) = 1
    /\ Len(FramesOf(files.student)[1].rows) = 2

\* C4: a student without an EDA series has no row in the list and none in the
\* written frame, whichever other sensors were produced; the step that skips the
\* student leaves the rows of the other students as they are and moves on to the
\* next student.
C4_NoAnchorNoRows ==
    /\ [](/\ pc = "merge" => DOMAIN status = SensorSet
          /\ (StudentDone /\ ~Produced("EDA")) =>
                /\ Len(FramesOf(files.student)) = 0
                /\ OutputRowsOf(files.student) = {}
                /\ Skipped(files.student))
    /\ [][(pc = "merge" /\ ~Produced("EDA")) =>
             /\ final_exam_data_list' = final_exam_data_list
             /\ df_final_exam' = df_final_exam
             /\ pc' = "student"
             /\ si' = si + 1]_vars

\* the second of two students has HR but no EDA.csv, the first was merged, and
\* the file holds the first student's rows only
C4_Witness ==
    /\ pc = "done"
    /\ Len(student_dirs) = 2
    /\ files.student = student_dirs[2]
    /\ status["EDA"] = "missing"
    /\ Produced("HR")
    /\ Len(final_exam_data_list) = 1
    /\ writes = 1
    /\ Len(df_final_exam.rows) = exam_duration

\* what C5 says of every failure, whichever sensor fails
C5_Common ==
    /\ \A s \in DOMAIN status : (status[s] = "ok") <=> (s \in DOMAIN sensor_dfs)
    /\ \A s \in DOMAIN status : status[s] = "missing" <=> ~files.holds[s].exists
    /\ pc = "sensor" => DOMAIN status = {SENSORS[j] : j \in 1..(ki - 1)}
    /\ (pc = "merge" \/ StudentDone) => DOMAIN status = SensorSet
    /\ pc = "done" =>
          /\ si = Len(student_dirs) + 1
          /\ \A j \in 1..Len(student_dirs) :
                Skipped(student_dirs[j]) \/ Len(FramesOf(student_dirs[j])) = 1
    /\ (pc = "student" /\ si <= Len(student_dirs)) => ENABLED EnterStudent
    /\ pc \in {"student", "sensor", "merge", "done"}
    /\ pc = "student" => si \in 1..(Len(student_dirs) + 1)

\* the rows of the current student, in the list and in the file, lack sensor s
ValuesMissing(s) ==
    /\ s \notin Range(FramesOf(files.student)[1].columns)
    /\ \A i \in OutputRowsOf(files.student) :
          s \in Range(df_final_exam.columns) => df_final_exam.rows[i][s] = NaN

\* C5 as stated: a failing sensor is dropped, the other sensors and the later
\* students are still processed, and when the failing sensor is not EDA the
\* student contributes exam_duration rows without that sensor's values.
C5_Original ==
    /\ C5_Common
    /\ \A s \in SensorSet \ {"EDA"} :
          (StudentDone /\ Failed(s)) =>
              /\ Len(FramesOf(files.student)) = 1
              /\ OneRowPerMinute(FramesOf(files.student)[1])
              /\ ValuesMissing(s)

\* C5 as amended: the same, for a student whose EDA series was produced.
C5_FailureDropsOnlyThatSensor ==
    /\ C5_Common
    /\ \A s \in SensorSet \ {"EDA"} :
          (StudentDone /\ Failed(s) /\ Produced("EDA")) =>
              /\ Len(FramesOf(files.student)) = 1
              /\ OneRowPerMinute(FramesOf(files.student)[1])
              /\ ValuesMissing(s)

\* the first of two students has a malformed HR header and a non-numeric TEMP
\* line, was merged with EDA and BVP, and the loop is at the second student
C5_Witness ==
    /\ pc = "student"
    /\ Len(student_dirs) = 2
    /\ si = 2
    /\ files.student = student_dirs[1]
    /\ files.holds["HR"] = BadLine2 /\ Failed("HR")
    /\ files.holds["TEMP"] = BadData /\ Failed("TEMP")
    /\ Produced("EDA") /\ Produced("BVP")
    /\ Len(final_exam_data_list) = 1
    /\ ENABLED EnterStudent

\* C6: the file is written if and only if at least one student was merged; it
\* is written at most once, and only by the step that ends the run, after every
\* student directory was processed; a run without merged student ends normally
\* without a write.
C6_WriteIffSomeMerged ==
    /\ writes \in {0, 1}
    /\ pc # "done" => writes = 0 /\ df_final_exam = NoFrame
    /\ pc = "done" =>
          /\ si = Len(student_dirs) + 1
          /\ writes = 1 <=> Len(final_exam_data_list) > 0
          /\ writes = 1 <=> df_final_exam # NoFrame
          /\ writes = 0 <=> console[Len(console)].msg = "nothing merged"

\* a run over two student directories, neither merged, that ended without a write
C6_Witness ==
    /\ pc = "done"
    /\ Len(student_dirs) = 2
    /\ Skipped(student_dirs[1]) /\ Skipped(student_dirs[2])
    /\ files.student = student_dirs[2]
    /\ writes = 0
    /\ df_final_exam = NoFrame

\* the students that were not skipped, in the order of student_dirs
MergedStudents == SelectSeq(student_dirs, LAMBDA id : ~Skipped(id))

\* C9: the written frame holds, for the merged students in lexicographic order
\* of their directory names, one block of exam_duration rows each, minutes
\* 0..exam_duration-1 ascending, and no other row.
C9_CorpusRows ==
    (pc = "done" /\ writes = 1) =>
        /\ \A i, j \in 1..Len(student_dirs) :
              i < j => LexLess(student_dirs[i], student_dirs[j])
        /\ Len(df_final_exam.rows) = Len(MergedStudents) * exam_duration
        /\ \A b \in 1..Len(MergedStudents) :
              \A m \in 0..(exam_duration - 1) :
                  LET r == df_final_exam.rows[(b - 1) * exam_duration + m + 1]
                  IN  /\ r["Student"] = Label(MergedStudents[b])
                      /\ r["Minute"] = Whole(m)
        /\ \A id \in Range(student_dirs) : Skipped(id) => OutputRowsOf(id) = {}

\* students S10 and S2 both merged and written, S10 first
C9_Witness ==
    /\ pc = "done"
    /\ writes = 1
    /\ exam_duration = 2
    /\ student_dirs = << <<1, 0>>, <<2>> >>
    /\ Len(final_exam_data_list) = 2
    /\ df_final_exam.rows[1]["Student"] = Label(<<1, 0>>)
    /\ df_final_exam.rows[3]["Student"] = Label(<<2>>)

\* the timestamps of the samples of file f
FileTimes(f) ==
    [i \in 1..Len(f.rows) |-> FloatAdd(f.line1, FloatDiv(Whole(i - 1), f.line2))]

\* the samples of f in [t0 + 60m, t0 + 60(m+1)), t0 the least timestamp of f itself
OwnMinute(f, m) ==
    LET ts == FileTimes(f)
        t0 == CHOOSE t \in {ts[i] : i \in {j \in 1..Len(ts) : ts[j].k # "nan"}} :
                  \A i \in 1..Len(ts) : ~FloatLess(ts[i], t)
    IN  {i \in 1..Len(ts) :
            /\ ts[i].k # "nan"
            /\ ~FloatLess(ts[i], FloatAdd(t0, Whole(SecondsPerMinute * m)))
            /\ FloatLess(ts[i], FloatAdd(t0, Whole(SecondsPerMinute * (m + 1))))}

SameButStart(f, g) == f.line2 = g.line2 /\ f.rows = g.rows

\* C10: in the merged frame, row m of each produced sensor is the mean of that
\* sensor's samples in [t0 + 60m, t0 + 60(m+1)) with t0 the least timestamp of
\* the sensor's own file; two sensors whose files differ in the start time only
\* have equal columns.
C10_OwnStartPerSensor ==
    (StudentDone /\ Produced("EDA") /\ Len(FramesOf(files.student)) = 1) =>
        LET e == FramesOf(files.student)[1]
        IN  /\ \A s \in SensorSet : Produced(s) =>
                  /\ s \in Range(e.columns)
                  /\ \A i \in 1..Len(e.rows) :
                        \E m \in 0..(exam_duration - 1) :
                            /\ e.rows[i]["Minute"] = Whole(m)
                            /\ IsMeanOf(e.rows[i][s], files.holds[s].rows,
                                        OwnMinute(files.holds[s], m))
            /\ \A s, t \in SensorSet :
                  (Produced(s) /\ Produced(t)
                     /\ SameButStart(files.holds[s], files.holds[t])) =>
                      \A i \in 1..Len(e.rows) : e.rows[i][s] = e.rows[i][t]

\* EDA starts at 1000, HR at 1030 with the same rate and samples, TEMP samples
\* every 100 s from 1000; all three are in the merged frame
C10_Witness ==
    /\ StudentDone
    /\ exam_duration = 2
    /\ files.holds["EDA"] = Ok1000 /\ Produced("EDA")
    /\ files.holds["HR"] = Ok1030 /\ Produced("HR")
    /\ files.holds["TEMP"] = Slow /\ Produced("TEMP")
    /\ Len(FramesOf(files.student)) = 1
    /\ FramesOf(files.student)[1].rows[2]["HR"] = Whole(4)
    /\ FramesOf(files.student)[1].rows[1]["HR"] = Num(3, 2)

\* the header of f is a numeric start time and a numeric sample rate > 0
HeaderValid(f) ==
    /\ f.line1.k = "num"
    /\ f.line2.k = "num"
    /\ FloatLess(Whole(0), f.line2)

\* C8: a file whose header is absent, not numeric or whose sample rate is not
\* > 0 fails to be read: the sensor has no series and no column in the
\* student's merged frame.
C8_InvalidHeaderFails ==
    \A s \in DOMAIN status :
        (files.holds[s].exists /\ ~HeaderValid(files.holds[s])) =>
            /\ status[s] = "error"
            /\ s \notin DOMAIN sensor_dfs
            /\ StudentDone =>
                  \A i \in 1..Len(FramesOf(files.student)) :
                      s \notin Range(FramesOf(files.student)[i].columns)

\* the student directory of the scenario: EDA.csv alone, run to the end
ScenarioRan ==
    /\ pc = "done"
    /\ files.student = <<1>>
    /\ files.holds = [s \in SensorSet |-> IF s = "EDA" THEN ScenarioFile ELSE Absent]

\* C7 as stated: 180 rows, EDA 1.0 in every minute 0..179, no BVP, TEMP, HR.
C7_Original ==
    ScenarioRan =>
        /\ writes = 1
        /\ Len(df_final_exam.rows) = FINAL_EXAM_DURATION
        /\ \A i \in 1..Len(df_final_exam.rows) :
              /\ df_final_exam.rows[i]["Minute"] = Whole(i - 1)
              /\ df_final_exam.rows[i]["EDA"] = Whole(1)
        /\ \A s \in {"BVP", "TEMP", "HR"} : s \notin Range(df_final_exam.columns)

\* C7 as amended: 180 rows, minutes 0..179; EDA is 1.0 in the minutes 0..3,
\* which hold all 185 samples (60, 60, 60 and 5), and missing in the minutes
\* 4..179; no BVP, TEMP, HR.
C7_ScenarioRows ==
    ScenarioRan =>
        /\ writes = 1
        /\ df_final_exam.columns = <<"Student", "Exam", "Minute", "EDA">>
        /\ Len(df_final_exam.rows) = FINAL_EXAM_DURATION
        /\ \A i \in 1..Len(df_final_exam.rows) :
              /\ df_final_exam.rows[i]["Minute"] = Whole(i - 1)
              /\ df_final_exam.rows[i]["EDA"] = IF i <= 4 THEN Whole(1) ELSE NaN
        /\ \A i \in 1..Len(ScenarioFile.rows) :
              \E m \in 0..3 : i \in OwnMinute(ScenarioFile, m)
        /\ Cardinality(OwnMinute(ScenarioFile, 3)) = 5

\* the scenario ran and its 180 rows were written
C7_Witness ==
    /\ ScenarioRan
    /\ writes = 1
    /\ Len(df_final_exam.rows) = FINAL_EXAM_DURATION
    /\ df_final_exam.rows[4]["EDA"] = Whole(1)
    /\ df_final_exam.rows[5]["EDA"] = NaN

=============================================================================
